---- MODULE Spec2Model ----
(***************************************************************************)
(* caption_x (src/app.py): live microphone capture, an energy gate, a      *)
(* queue, and a Whisper transcription loop, driven by a Tk control         *)
(* surface.  The model has one capture thread and one transcription thread *)
(* per call of toggle_recording that starts a session, the Tk event loop   *)
(* (button intents and root.after callbacks), and the device probe that    *)
(* runs once before the event loop.                                        *)
(***************************************************************************)
EXTENDS Integers, Sequences, FiniteSets, TLC

(* ---------------- program constants ---------------- *)
CHUNK_DURATION == 5
VOLUME_THRESHOLD == 10
DEVICE_INDICES_TO_TRY == <<1, 5, 9, 13, 0, 4, 14, 18, 19, 20>>

(* ---------------- bounds of the model ---------------- *)
\* sessions started (each start creates one capture and one transcription thread)
MaxSessions == 2
\* chunks whose capture is begun, over all capture threads
MaxChunks == 2
\* frames per chunk (the program records SAMPLERATE * CHUNK_DURATION frames)
ChunkFrames == 400
\* number of devices sd.query_devices() lists (indices 0 .. NumDevices-1)
NumDevices == 10

\* Python None; a device index i is held as <<i>>
None == <<>>
NoAudio == [v |-> 0, n |-> 0]
NoChunk == [id |-> 0, audio |-> NoAudio, start_time |-> 0, sess |-> 0]

Max(a, b) == IF a >= b THEN a ELSE b

VARIABLES
    default_device_index,  \* module global, set by the probe
    is_recording,          \* module global flag
    is_paused,             \* module global flag
    audio_queue,           \* queue.Queue(): FIFO of (audio, start_time) entries
    rec_thread,            \* record_audio threads: position and locals
    trans_thread,          \* transcribe_audio threads: position and locals (the
                           \* locals of an iteration are kept until the next
                           \* evaluation of the loop condition)
    nsessions,             \* number of thread pairs started so far
    gui_events,            \* callbacks scheduled with root.after(0, ...)
    sink,                  \* calls of update_gui made so far
    clock,                 \* time.time(), as a monotone integer
    boot,                  \* "probe" before check_audio_devices, "gui" after
    device_map,            \* input-capable devices of the machine
    openable,              \* devices whose test stream opens
    probe_log,             \* test streams attempted by the probe, in order
    next_id,               \* identity of the next captured chunk
    attempts,              \* chunk id -> number of times it was dequeued
    enq_log,               \* chunk ids in the order they were put on the queue
    at_pause               \* chunk ids still queued that were queued when pause was set

vars == <<default_device_index, is_recording, is_paused, audio_queue, rec_thread,
          trans_thread, nsessions, gui_events, sink, clock, boot, device_map,
          openable, probe_log, next_id, attempts, enq_log, at_pause>>

sessionVars == <<is_recording, is_paused, audio_queue, rec_thread, trans_thread,
                 nsessions, gui_events, sink, clock, next_id, attempts, enq_log,
                 at_pause>>

probeVars == <<default_device_index, boot, device_map, openable, probe_log>>

Sessions == 1..MaxSessions
ChunkIds == 1..MaxChunks

(* ---------------- the energy gate (record_audio, lines 128-132) -------- *)
\* A chunk's channel 0: n frames of value v, the other frames 0.
AudioInputs ==
    { [v |-> 5,   n |-> ChunkFrames],
      [v |-> 10,  n |-> ChunkFrames],
      [v |-> 256, n |-> ChunkFrames],
      [v |-> 182, n |-> 1] }

\* int16 arithmetic: mono_audio**2 keeps dtype int16 and wraps
Int16(x) == ((x + 32768) % 65536) - 32768

\* sum over the frames of mono_audio**2, as numpy computes the elements
SumSquares(audio) == audio.n * Int16(audio.v * audio.v)

\* rms < VOLUME_THRESHOLD, where rms = sqrt(mean(mono_audio**2)); the mean of
\* wrapped squares can be negative, sqrt is then nan and nan < x is False
rms_below_threshold(audio) ==
    /\ SumSquares(audio) >= 0
    /\ SumSquares(audio) < VOLUME_THRESHOLD * VOLUME_THRESHOLD * ChunkFrames

(* ---------------- str.strip (transcribe_audio, line 180) --------------- *)
IsSpace(c) == c \in {" ", "\t", "\n"}

RECURSIVE lstrip(_)
lstrip(s) == IF s = <<>> THEN <<>>
             ELSE IF IsSpace(Head(s)) THEN lstrip(Tail(s)) ELSE s

RECURSIVE rstrip(_)
rstrip(s) == IF s = <<>> THEN <<>>
             ELSE IF IsSpace(s[Len(s)]) THEN rstrip(SubSeq(s, 1, Len(s) - 1)) ELSE s

\* the recognizer's text used as it comes, without .strip()
strip_missing(s) == s

strip(s) == rstrip(lstrip(s))

\* texts the recognizer may return
Texts == { <<" ">>, <<" ", "h", "i", "\n">> }

(* ---------------- the device probe (lines 43-83) ----------------------- *)
\* the for loop of find_working_device from position i on; log holds the test
\* streams attempted so far
\* the loop without its return at line 69: default_device_index is assigned
\* and the loop goes on, so the last usable candidate wins
RECURSIVE probe_without_return(_, _, _, _)
probe_without_return(i, dm, op, log) ==
    IF i > Len(DEVICE_INDICES_TO_TRY)
    THEN [result |-> None, log |-> log]
    ELSE LET index == DEVICE_INDICES_TO_TRY[i] IN
         IF index \notin dm
         THEN probe_without_return(i + 1, dm, op, log)
         ELSE IF index \in op
              THEN LET rest == probe_without_return(i + 1, dm, op, Append(log, index))
                   IN IF rest.result = None
                      THEN [result |-> <<index>>, log |-> rest.log]
                      ELSE rest
              ELSE probe_without_return(i + 1, dm, op, Append(log, index))

RECURSIVE probe_from(_, _, _, _)
probe_from(i, dm, op, log) ==
    IF i > Len(DEVICE_INDICES_TO_TRY)
    THEN [result |-> None, log |-> log]
    ELSE LET index == DEVICE_INDICES_TO_TRY[i] IN
         IF index \notin dm
         THEN probe_from(i + 1, dm, op, log)
         ELSE IF index \in op
              THEN [result |-> <<index>>, log |-> Append(log, index)]
              ELSE probe_from(i + 1, dm, op, Append(log, index))

find_working_device(dm, op) == probe_from(1, dm, op, <<>>)

check_audio_devices ==
    /\ boot = "probe"
    /\ LET r == find_working_device(device_map, openable) IN
         /\ default_device_index' = r.result
         /\ probe_log' = r.log
    /\ boot' = "gui"
    /\ UNCHANGED <<device_map, openable>>
    /\ UNCHANGED sessionVars

(* ---------------- scheduling on the Tk event loop ---------------------- *)
\* root.after(0, lambda: toggle_recording(force_stop=True))
ForceStopEvent ==
    [kind |-> "force_stop", text |-> <<>>, latency |-> 0, id |-> 0,
     start_time |-> 0, raw |-> <<>>, end_time |-> 0]

\* root.after(0, lambda t=text, l=latency: update_gui(t, l)); id, start_time,
\* raw and end_time record what the call was computed from
UpdateGuiEvent(text, latency, chunk, raw, end_time) ==
    [kind |-> "update_gui", text |-> text, latency |-> latency, id |-> chunk.id,
     start_time |-> chunk.start_time, raw |-> raw, end_time |-> end_time]

(* ---------------- record_audio (lines 100-144) ------------------------- *)
\* lines 103-108: the thread starts; without a device it asks for a forced stop
record_audio_entry(t) ==
    /\ rec_thread[t].pc = "entry"
    /\ IF default_device_index = None
       THEN /\ gui_events' = Append(gui_events, ForceStopEvent)
            /\ rec_thread' = [rec_thread EXCEPT ![t].pc = "done"]
       ELSE /\ rec_thread' = [rec_thread EXCEPT ![t].pc = "while"]
            /\ UNCHANGED gui_events
    /\ UNCHANGED <<is_recording, is_paused, audio_queue, trans_thread, nsessions,
                   sink, clock, next_id, attempts, enq_log, at_pause>>
    /\ UNCHANGED probeVars

\* line 110: while is_recording
record_audio_while(t) ==
    /\ rec_thread[t].pc = "while"
    /\ rec_thread' = [rec_thread EXCEPT ![t].pc =
                         IF is_recording THEN "if_paused" ELSE "done"]
    /\ UNCHANGED <<is_recording, is_paused, audio_queue, trans_thread, nsessions,
                   gui_events, sink, clock, next_id, attempts, enq_log, at_pause>>
    /\ UNCHANGED probeVars

\* the timestamp taken once sd.wait() has returned
chunk_start_time_after_wait(before_rec, after_wait) == after_wait

\* the timestamp a chunk carries: time.time() at line 115, before sd.rec
chunk_start_time(before_rec, after_wait) == before_rec

\* record_audio without the pause branch of lines 111-113
record_audio_if_paused_ignored(t) ==
    /\ rec_thread[t].pc = "if_paused"
    /\ next_id <= MaxChunks
    /\ rec_thread' = [rec_thread EXCEPT ![t] =
          [pc |-> "rec", start_time |-> clock, id |-> next_id,
           sess |-> nsessions]]
    /\ next_id' = next_id + 1
    /\ UNCHANGED <<is_recording, is_paused, audio_queue, trans_thread, nsessions,
                   gui_events, sink, clock, attempts, enq_log, at_pause>>
    /\ UNCHANGED probeVars

\* lines 111-123: sleep and re-check when paused, else take the timestamp and
\* begin recording one chunk
record_audio_if_paused(t) ==
    /\ rec_thread[t].pc = "if_paused"
    /\ IF is_paused
       THEN /\ rec_thread' = [rec_thread EXCEPT ![t].pc = "while"]
            /\ UNCHANGED next_id
       ELSE /\ next_id <= MaxChunks
            /\ rec_thread' = [rec_thread EXCEPT ![t] =
                  [pc |-> "rec", start_time |-> clock, id |-> next_id,
                   sess |-> nsessions]]
            /\ next_id' = next_id + 1
    /\ UNCHANGED <<is_recording, is_paused, audio_queue, trans_thread, nsessions,
                   gui_events, sink, clock, attempts, enq_log, at_pause>>
    /\ UNCHANGED probeVars

\* lines 125-137: sd.wait() returns after the chunk duration; the gate drops
\* the chunk or puts it on the queue
record_audio_chunk(t) ==
    /\ rec_thread[t].pc = "rec"
    /\ \E audio \in AudioInputs :
         LET now   == Max(clock, rec_thread[t].start_time + CHUNK_DURATION)
             entry == [id |-> rec_thread[t].id, audio |-> audio,
                       start_time |-> chunk_start_time(rec_thread[t].start_time, now),
                       sess |-> rec_thread[t].sess]
         IN /\ clock' = now
            /\ IF rms_below_threshold(audio)
               THEN UNCHANGED <<audio_queue, enq_log>>
               ELSE /\ audio_queue' = Append(audio_queue, entry)
                    /\ enq_log' = Append(enq_log, entry.id)
    /\ rec_thread' = [rec_thread EXCEPT ![t].pc = "while"]
    /\ UNCHANGED <<is_recording, is_paused, trans_thread, nsessions, gui_events,
                   sink, next_id, attempts, at_pause>>
    /\ UNCHANGED probeVars

\* lines 139-142: sd.rec or sd.wait raises; ask for a forced stop and leave
record_audio_error(t) ==
    /\ rec_thread[t].pc = "rec"
    /\ gui_events' = Append(gui_events, ForceStopEvent)
    /\ rec_thread' = [rec_thread EXCEPT ![t].pc = "done"]
    /\ UNCHANGED <<is_recording, is_paused, audio_queue, trans_thread, nsessions,
                   sink, clock, next_id, attempts, enq_log, at_pause>>
    /\ UNCHANGED probeVars

(* ---------------- transcribe_audio (lines 163-198) --------------------- *)
\* line 166, first operand: is_recording
transcribe_audio_while(t) ==
    /\ trans_thread[t].pc = "while"
    /\ trans_thread' = [trans_thread EXCEPT ![t] =
           [pc |-> IF is_recording THEN "get" ELSE "while_empty",
            chunk |-> NoChunk, got |-> "none", raw |-> <<>>]]
    /\ UNCHANGED <<is_recording, is_paused, audio_queue, rec_thread, nsessions,
                   gui_events, sink, clock, next_id, attempts, enq_log, at_pause>>
    /\ UNCHANGED probeVars

\* line 166, second operand: not audio_queue.empty()
transcribe_audio_while_empty(t) ==
    /\ trans_thread[t].pc = "while_empty"
    /\ trans_thread' = [trans_thread EXCEPT ![t].pc =
                           IF audio_queue # <<>> THEN "get" ELSE "done"]
    /\ UNCHANGED <<is_recording, is_paused, audio_queue, rec_thread, nsessions,
                   gui_events, sink, clock, next_id, attempts, enq_log, at_pause>>
    /\ UNCHANGED probeVars

\* a pop that returns the head of the queue and leaves it there
transcribe_audio_get_without_remove(t) ==
    /\ trans_thread[t].pc = "get"
    /\ audio_queue # <<>>
    /\ trans_thread' = [trans_thread EXCEPT ![t] =
                           [pc |-> "proc", chunk |-> Head(audio_queue),
                            got |-> "none", raw |-> <<>>]]
    /\ UNCHANGED audio_queue
    /\ attempts' = [attempts EXCEPT ![Head(audio_queue).id] = @ + 1]
    /\ at_pause' = at_pause \ {Head(audio_queue).id}
    /\ UNCHANGED <<is_recording, is_paused, rec_thread, nsessions, gui_events,
                   sink, clock, next_id, enq_log>>
    /\ UNCHANGED probeVars

\* line 169: audio_queue.get returns the oldest entry
transcribe_audio_get(t) ==
    /\ trans_thread[t].pc = "get"
    /\ audio_queue # <<>>
    /\ trans_thread' = [trans_thread EXCEPT ![t] =
                           [pc |-> "proc", chunk |-> Head(audio_queue),
                            got |-> "none", raw |-> <<>>]]
    /\ audio_queue' = Tail(audio_queue)
    /\ attempts' = [attempts EXCEPT ![Head(audio_queue).id] = @ + 1]
    /\ at_pause' = at_pause \ {Head(audio_queue).id}
    /\ UNCHANGED <<is_recording, is_paused, rec_thread, nsessions, gui_events,
                   sink, clock, next_id, enq_log>>
    /\ UNCHANGED probeVars

\* line 169: audio_queue.get finds the queue empty until the timeout and
\* raises queue.Empty
transcribe_audio_timeout(t) ==
    /\ trans_thread[t].pc = "get"
    /\ audio_queue = <<>>
    /\ trans_thread' = [trans_thread EXCEPT ![t].pc = "except_empty"]
    /\ UNCHANGED <<is_recording, is_paused, audio_queue, rec_thread, nsessions,
                   gui_events, sink, clock, next_id, attempts, enq_log, at_pause>>
    /\ UNCHANGED probeVars

\* except queue.Empty without the test of line 192: break on every timeout
transcribe_audio_except_empty_always_break(t) ==
    /\ trans_thread[t].pc = "except_empty"
    /\ trans_thread' = [trans_thread EXCEPT ![t].pc = "done"]
    /\ UNCHANGED <<is_recording, is_paused, audio_queue, rec_thread, nsessions,
                   gui_events, sink, clock, next_id, attempts, enq_log, at_pause>>
    /\ UNCHANGED probeVars

\* lines 191-194: except queue.Empty
transcribe_audio_except_empty(t) ==
    /\ trans_thread[t].pc = "except_empty"
    /\ trans_thread' = [trans_thread EXCEPT ![t].pc =
                           IF ~is_recording THEN "done" ELSE "while"]
    /\ UNCHANGED <<is_recording, is_paused, audio_queue, rec_thread, nsessions,
                   gui_events, sink, clock, next_id, attempts, enq_log, at_pause>>
    /\ UNCHANGED probeVars

\* after line 183 only the identity of the chunk is of interest
Processed(chunk) == [NoChunk EXCEPT !.id = chunk.id]

\* line 183
latency_of(end_time, start_time) == end_time - start_time

\* line 185: if text
deliverable(text) == text # <<>>

\* lines 173-189: the recognizer returns raw; one call of update_gui is
\* scheduled when the stripped text is not empty.  The clock is a lower bound
\* on elapsed time: the recognizer call itself adds nothing to it
transcribe_audio_result(t) ==
    /\ trans_thread[t].pc = "proc"
    /\ \E raw \in Texts :
         LET chunk    == trans_thread[t].chunk
             text     == strip(raw)
             end_time == clock
             latency  == latency_of(end_time, chunk.start_time)
         IN /\ UNCHANGED clock
            /\ IF deliverable(text)
               THEN gui_events' = Append(gui_events,
                        UpdateGuiEvent(text, latency, chunk, raw, end_time))
               ELSE UNCHANGED gui_events
            /\ trans_thread' = [trans_thread EXCEPT ![t] =
                   [pc |-> "while", chunk |-> Processed(chunk), got |-> "text",
                    raw |-> raw]]
    /\ UNCHANGED <<is_recording, is_paused, audio_queue, rec_thread, nsessions,
                   sink, next_id, attempts, enq_log, at_pause>>
    /\ UNCHANGED probeVars

\* transcribe_audio without the handler of lines 195-196: the exception
\* leaves the thread function
transcribe_audio_exception_uncaught(t) ==
    /\ trans_thread[t].pc = "proc"
    /\ trans_thread' = [trans_thread EXCEPT ![t] =
           [pc |-> "done", chunk |-> Processed(trans_thread[t].chunk),
            got |-> "error", raw |-> <<>>]]
    /\ UNCHANGED <<is_recording, is_paused, audio_queue, rec_thread, nsessions,
                   gui_events, sink, clock, next_id, attempts, enq_log, at_pause>>
    /\ UNCHANGED probeVars

\* lines 195-196: resampling or the recognizer raises; the chunk is dropped
transcribe_audio_exception(t) ==
    /\ trans_thread[t].pc = "proc"
    /\ trans_thread' = [trans_thread EXCEPT ![t] =
           [pc |-> "while", chunk |-> Processed(trans_thread[t].chunk),
            got |-> "error", raw |-> <<>>]]
    /\ UNCHANGED <<is_recording, is_paused, audio_queue, rec_thread, nsessions,
                   gui_events, sink, clock, next_id, attempts, enq_log, at_pause>>
    /\ UNCHANGED probeVars

(* ---------------- the control surface (lines 148-233) ------------------ *)
\* toggle_recording without the device check of lines 205-207
toggle_recording_without_device_check(force_stop) ==
    IF ~is_recording \/ force_stop
    THEN /\ nsessions < MaxSessions
         /\ is_recording' = TRUE
         /\ is_paused' = FALSE
         /\ audio_queue' = <<>>
         /\ nsessions' = nsessions + 1
         /\ rec_thread' = [rec_thread EXCEPT ![nsessions + 1].pc = "entry"]
         /\ trans_thread' = [trans_thread EXCEPT ![nsessions + 1].pc = "while"]
    ELSE /\ is_recording' = FALSE
         /\ UNCHANGED <<is_paused, audio_queue, rec_thread, trans_thread, nsessions>>

\* toggle_recording without the assignment of line 210
toggle_recording_keeps_pause(force_stop) ==
    IF ~is_recording \/ force_stop
    THEN IF default_device_index = None
         THEN UNCHANGED <<is_recording, is_paused, audio_queue, rec_thread,
                          trans_thread, nsessions>>
         ELSE /\ nsessions < MaxSessions
              /\ is_recording' = TRUE
              /\ UNCHANGED is_paused
              /\ audio_queue' = <<>>
              /\ nsessions' = nsessions + 1
              /\ rec_thread' = [rec_thread EXCEPT ![nsessions + 1].pc = "entry"]
              /\ trans_thread' = [trans_thread EXCEPT ![nsessions + 1].pc = "while"]
    ELSE /\ is_recording' = FALSE
         /\ UNCHANGED <<is_paused, audio_queue, rec_thread, trans_thread, nsessions>>

\* lines 202-223; the two Thread(...).start() calls create thread pair
\* nsessions + 1
toggle_recording(force_stop) ==
    IF ~is_recording \/ force_stop
    THEN IF default_device_index = None
         THEN UNCHANGED <<is_recording, is_paused, audio_queue, rec_thread,
                          trans_thread, nsessions>>
         ELSE /\ nsessions < MaxSessions
              /\ is_recording' = TRUE
              /\ is_paused' = FALSE
              /\ audio_queue' = <<>>
              /\ nsessions' = nsessions + 1
              /\ rec_thread' = [rec_thread EXCEPT ![nsessions + 1].pc = "entry"]
              /\ trans_thread' = [trans_thread EXCEPT ![nsessions + 1].pc = "while"]
    ELSE /\ is_recording' = FALSE
         /\ UNCHANGED <<is_paused, audio_queue, rec_thread, trans_thread, nsessions>>

\* toggle_pause without the test of line 227
toggle_pause_unguarded == is_paused' = ~is_paused

\* lines 225-233
toggle_pause ==
    IF is_recording
    THEN is_paused' = ~is_paused
    ELSE UNCHANGED is_paused

\* lines 148-152: the sink receives one (text, latency) event
update_gui(event) == sink' = Append(sink, event)

\* the record button (command=toggle_recording)
ClickRecord ==
    /\ boot = "gui"
    /\ toggle_recording(FALSE)
    /\ at_pause' = {}
    /\ UNCHANGED <<gui_events, sink, clock, next_id, attempts, enq_log>>
    /\ UNCHANGED probeVars

QueuedIds == { audio_queue[i].id : i \in 1..Len(audio_queue) }

\* the pause button (command=toggle_pause)
ClickPause ==
    /\ boot = "gui"
    /\ toggle_pause
    /\ at_pause' = IF is_recording /\ ~is_paused THEN at_pause \cup QueuedIds
                   ELSE at_pause
    /\ UNCHANGED <<is_recording, audio_queue, rec_thread, trans_thread, nsessions,
                   gui_events, sink, clock, next_id, attempts, enq_log>>
    /\ UNCHANGED probeVars

\* the event loop runs the oldest root.after callback: a forced stop
AfterForceStop ==
    /\ gui_events # <<>>
    /\ Head(gui_events).kind = "force_stop"
    /\ gui_events' = Tail(gui_events)
    /\ toggle_recording(TRUE)
    /\ at_pause' = at_pause \cap { audio_queue'[i].id : i \in 1..Len(audio_queue') }
    /\ UNCHANGED <<sink, clock, next_id, attempts, enq_log>>
    /\ UNCHANGED probeVars

\* the event loop runs the oldest root.after callback: a result for the sink
AfterUpdateGui ==
    /\ gui_events # <<>>
    /\ Head(gui_events).kind = "update_gui"
    /\ gui_events' = Tail(gui_events)
    /\ update_gui(Head(gui_events))
    /\ UNCHANGED <<is_recording, is_paused, audio_queue, rec_thread, trans_thread,
                   nsessions, clock, next_id, attempts, enq_log, at_pause>>
    /\ UNCHANGED probeVars

(* ---------------- specifications --------------------------------------- *)
InitSession ==
    /\ is_recording = FALSE
    /\ is_paused = FALSE
    /\ audio_queue = <<>>
    /\ rec_thread = [t \in Sessions |->
                        [pc |-> "none", start_time |-> 0, id |-> 0, sess |-> 0]]
    /\ trans_thread = [t \in Sessions |->
                          [pc |-> "none", chunk |-> NoChunk, got |-> "none",
                           raw |-> <<>>]]
    /\ nsessions = 0
    /\ gui_events = <<>>
    /\ sink = <<>>
    /\ clock = 0
    /\ next_id = 1
    /\ attempts = [c \in ChunkIds |-> 0]
    /\ enq_log = <<>>
    /\ at_pause = {}

\* machines the session model starts on: no input device at all, or the first
\* candidate present and usable
BootMachines == { {}, {DEVICE_INDICES_TO_TRY[1]} }

\* the state when root.mainloop() is entered: check_audio_devices has run
Init ==
    /\ InitSession
    /\ boot = "gui"
    /\ device_map \in BootMachines
    /\ openable = device_map
    /\ default_device_index = find_working_device(device_map, openable).result
    /\ probe_log = find_working_device(device_map, openable).log

Next ==
    \/ ClickRecord
    \/ ClickPause
    \/ AfterForceStop
    \/ AfterUpdateGui
    \/ \E t \in Sessions :
         \/ record_audio_entry(t)
         \/ record_audio_while(t)
         \/ record_audio_if_paused(t)
         \/ record_audio_chunk(t)
         \/ record_audio_error(t)
         \/ transcribe_audio_while(t)
         \/ transcribe_audio_while_empty(t)
         \/ transcribe_audio_get(t)
         \/ transcribe_audio_timeout(t)
         \/ transcribe_audio_except_empty(t)
         \/ transcribe_audio_result(t)
         \/ transcribe_audio_exception(t)

Spec == Init /\ [][Next]_vars

\* one step of the capture thread t (threading.Thread(target=record_audio),
\* line 217)
record_audio_step(t) ==
    \/ record_audio_entry(t)
    \/ record_audio_while(t)
    \/ record_audio_if_paused(t)
    \/ record_audio_chunk(t)
    \/ record_audio_error(t)

\* one step of the transcription thread t
\* (threading.Thread(target=transcribe_audio), line 218)
transcribe_audio_step(t) ==
    \/ transcribe_audio_while(t)
    \/ transcribe_audio_while_empty(t)
    \/ transcribe_audio_get(t)
    \/ transcribe_audio_timeout(t)
    \/ transcribe_audio_except_empty(t)
    \/ transcribe_audio_result(t)
    \/ transcribe_audio_exception(t)

\* The sessions under fair scheduling: every started thread keeps being
\* scheduled (sd.wait() returns after CHUNK_DURATION, audio_queue.get returns
\* or times out after WHISPER_QUEUE_TIMEOUT, time.sleep(0.1) returns) and
\* root.mainloop() runs every callback passed to root.after.  Nothing is
\* assumed about the button presses.
SpecFair ==
    /\ Spec
    /\ \A t \in Sessions : WF_vars(record_audio_step(t))
    /\ \A t \in Sessions : WF_vars(transcribe_audio_step(t))
    /\ WF_vars(AfterForceStop)
    /\ WF_vars(AfterUpdateGui)

\* the state before check_audio_devices(): any machine with NumDevices devices
InitProbe ==
    /\ InitSession
    /\ boot = "probe"
    /\ device_map \in SUBSET (0..(NumDevices - 1))
    /\ openable \in SUBSET device_map
    /\ default_device_index = None
    /\ probe_log = <<>>

NextProbe == check_audio_devices

SpecProbe == InitProbe /\ [][NextProbe]_vars

(* ======================= properties =================================== *)
Range(q) == { q[i] : i \in 1..Len(q) }

EnqueuedIds == Range(enq_log)

\* the chunks some transcription thread holds between get and the result
HeldIds == { trans_thread[t].chunk.id : t \in { u \in Sessions : trans_thread[u].pc = "proc" } }

\* every thread that was started has returned, and the session is Idle
AllLoopsDone ==
    /\ nsessions >= 1
    /\ ~is_recording
    /\ \A t \in 1..nsessions :
         rec_thread[t].pc = "done" /\ trans_thread[t].pc = "done"

\* the root-mean-square of channel 0 over exact integers is below the threshold
true_rms_below_threshold(audio) ==
    audio.n * audio.v * audio.v < VOLUME_THRESHOLD * VOLUME_THRESHOLD * ChunkFrames

\* the update_gui calls scheduled or made so far
Events == { e \in Range(gui_events) \cup Range(sink) : e.kind = "update_gui" }

\* the event loop is running the forced stop requested by a capture thread
ForceStopRuns ==
    /\ gui_events # <<>>
    /\ Head(gui_events).kind = "force_stop"
    /\ gui_events' = Tail(gui_events)

\* C1: every chunk at or above the threshold (put on the queue by the gate)
\* gets exactly one transcription attempt: once every loop has returned, each
\* chunk that was put on the queue has been dequeued exactly once.
C1_ExactlyOneAttempt ==
    AllLoopsDone => \A id \in EnqueuedIds : attempts[id] = 1

\* C2: a chunk whose energy metric (root-mean-square of channel 0) is
\* strictly below VOLUME_THRESHOLD is never on audio_queue.
C2_SilentNeverQueued ==
    \A i \in 1..Len(audio_queue) : ~true_rms_below_threshold(audio_queue[i].audio)

\* position of a chunk in the order of enqueueing
EnqPos(id) == CHOOSE i \in 1..Len(enq_log) : enq_log[i] = id

\* C3: chunks are processed in the order they were enqueued: while the attempt
\* for a chunk is running, every chunk enqueued before it is neither waiting
\* in the queue nor being processed by another thread.
C3_FifoProcessing ==
    \A c2 \in HeldIds : \A c1 \in EnqueuedIds :
        EnqPos(c1) < EnqPos(c2) => c1 \notin QueuedIds /\ c1 \notin HeldIds

\* C4: the forced stop requested after a stream error behaves like a normal
\* stop: after it has run the session is Idle and no new loop was started.
C4_ForceStopStops ==
    [][ForceStopRuns => (~is_recording' /\ nsessions' = nsessions)]_vars

\* C5: stop is idempotent: a stop issued while the session is Idle (the
\* forced stop arriving after the user's stop) leaves it Idle and starts no loop.
C5_StopWhileIdle ==
    [][(ForceStopRuns /\ ~is_recording)
          => (~is_recording' /\ rec_thread' = rec_thread
                /\ trans_thread' = trans_thread)]_vars

\* the capture loop of the newest session has passed its entry
NewCaptureResumed ==
    /\ nsessions >= 2
    /\ rec_thread[nsessions].pc \in {"while", "if_paused", "rec"}

\* C6: after a restart, once the new session's capture has resumed, no chunk
\* whose capture began in a prior session is in audio_queue.
C6_NoStaleChunkAfterRestart ==
    NewCaptureResumed =>
        \A i \in 1..Len(audio_queue) : audio_queue[i].sess = nsessions

\* what str.strip must return for raw: raw without its leading and trailing
\* whitespace
IsTrimOf(text, raw) ==
    \E i, j \in 0..Len(raw) :
        /\ i + j <= Len(raw)
        /\ text = SubSeq(raw, i + 1, Len(raw) - j)
        /\ \A k \in 1..i : IsSpace(raw[k])
        /\ \A k \in (Len(raw) - j + 1)..Len(raw) : IsSpace(raw[k])
        /\ text # <<>> => ~IsSpace(text[1]) /\ ~IsSpace(text[Len(text)])

EventsOf(id) == { e \in Events : e.id = id }

\* number of update_gui calls scheduled or made for chunk id
EventCount(id) ==
    Cardinality({ i \in 1..Len(gui_events) :
                    gui_events[i].kind = "update_gui" /\ gui_events[i].id = id })
    + Cardinality({ i \in 1..Len(sink) : sink[i].id = id })

\* C7: a processed chunk whose recognizer text is empty after trimming has no
\* event; one whose text is not empty has exactly one event, carrying the
\* trimmed text and the latency computed for that chunk.
C7_OneEventPerNonEmptyText ==
    /\ \A t \in Sessions :
         trans_thread[t].got = "text" =>
           LET id == trans_thread[t].chunk.id IN
             IF IsTrimOf(<<>>, trans_thread[t].raw)
             THEN EventCount(id) = 0
             ELSE /\ EventCount(id) = 1
                  /\ \A e \in EventsOf(id) : e.raw = trans_thread[t].raw
    /\ \A t \in Sessions :
         trans_thread[t].got = "error" => EventCount(trans_thread[t].chunk.id) = 0
    /\ \A e \in Events :
         /\ e.text # <<>>
         /\ IsTrimOf(e.text, e.raw)
         /\ e.latency = e.end_time - e.start_time
         /\ EventCount(e.id) = 1

\* a chunk with a non-empty text got its event, and another came back blank
C7_Witness ==
    /\ \E t \in Sessions :
         /\ trans_thread[t].got = "text"
         /\ trans_thread[t].raw = <<" ", "h", "i", "\n">>
         /\ \E e \in EventsOf(trans_thread[t].chunk.id) : e.text = <<"h", "i">>
    /\ \E t \in Sessions :
         /\ trans_thread[t].got = "text"
         /\ trans_thread[t].raw = <<" ">>
         /\ EventCount(trans_thread[t].chunk.id) = 0

\* positions of DEVICE_INDICES_TO_TRY whose device is input-capable and opens
Working == { i \in 1..Len(DEVICE_INDICES_TO_TRY) :
               /\ DEVICE_INDICES_TO_TRY[i] \in device_map
               /\ DEVICE_INDICES_TO_TRY[i] \in openable }

FirstWorking == CHOOSE i \in Working : \A j \in Working : i <= j

\* C8: the probe returns the first candidate, in priority order, whose test
\* stream opens; no candidate after it is attempted, no candidate is attempted
\* twice, and the result is None exactly when no candidate opens.
C8_FirstWorkingDevice ==
    boot = "gui" =>
      /\ (default_device_index = None) <=> (Working = {})
      /\ Working # {} =>
           /\ default_device_index = <<DEVICE_INDICES_TO_TRY[FirstWorking]>>
           /\ probe_log[Len(probe_log)] = DEVICE_INDICES_TO_TRY[FirstWorking]
           /\ \A k \in 1..Len(probe_log) :
                \E i \in 1..FirstWorking : DEVICE_INDICES_TO_TRY[i] = probe_log[k]
      /\ \A k, m \in 1..Len(probe_log) : probe_log[k] = probe_log[m] => k = m
      /\ \A k \in 1..Len(probe_log) : probe_log[k] \in device_map

\* the probe of the scenario: 1 and 5 are present and fail, 9 opens, and a
\* later candidate that would open too is not attempted
C8_Witness ==
    /\ boot = "gui"
    /\ default_device_index = <<9>>
    /\ probe_log = <<1, 5, 9>>
    /\ 0 \in openable

\* C9: pause and resume neither drop nor duplicate queued chunks: a chunk that
\* was queued when pause was set leaves the queue only by being handed to a
\* transcription thread, in every step but the user's own start or stop.
C9_PausedChunksKept ==
    [][~ClickRecord =>
         \A id \in at_pause :
            \/ id \in { audio_queue'[i].id : i \in 1..Len(audio_queue') }
            \/ \E t \in Sessions :
                 trans_thread'[t].pc = "proc" /\ trans_thread'[t].chunk.id = id]_vars

\* C10: the latency of every event is at least the chunk duration.
C10_LatencyAtLeastChunkDuration ==
    \A e \in Events : e.latency >= CHUNK_DURATION

\* an event delivered with exactly the chunk duration, and one that also
\* waited in the queue
C10_Witness ==
    /\ \E i \in 1..Len(sink) : sink[i].latency = CHUNK_DURATION
    /\ \E i \in 1..Len(sink) : sink[i].latency > CHUNK_DURATION

\* C11: without a resolved device a start is a no-op: is_recording stays
\* false, is_paused and the queue stay as they are and no loop is started;
\* hence is_recording implies a resolved device.
C11_NoDeviceNoSession ==
    /\ is_recording => default_device_index # None
    /\ default_device_index = None =>
         /\ ~is_recording
         /\ ~is_paused
         /\ audio_queue = <<>>
         /\ nsessions = 0
         /\ \A t \in Sessions :
              rec_thread[t].pc = "none" /\ trans_thread[t].pc = "none"
         /\ gui_events = <<>>

\* no device was resolved and the record button can be pressed
C11_Witness ==
    /\ boot = "gui"
    /\ default_device_index = None
    /\ ENABLED ClickRecord

\* session s is the latest one and it was stopped
Stopped(s) == nsessions = s /\ ~is_recording

\* both loops started by session s have returned
LoopsDone(s) == rec_thread[s].pc = "done" /\ trans_thread[s].pc = "done"

\* the model cannot go on: the chunk budget is used up, or a forced stop is
\* waiting that would start a session beyond MaxSessions
OutOfBounds ==
    \/ next_id > MaxChunks
    \/ /\ nsessions = MaxSessions
       /\ \E i \in 1..Len(gui_events) : gui_events[i].kind = "force_stop"

\* C12: after a stop both loops started by the stopped session eventually
\* terminate under fair scheduling, whatever is pressed afterwards, an
\* immediate restart included.
C12_StoppedLoopsTerminate ==
    \A s \in Sessions : Stopped(s) ~> (LoopsDone(s) \/ OutOfBounds)

\* the capture loops that are recording a chunk they will offer to audio_queue
Producing == { t \in Sessions : rec_thread[t].pc = "rec" }

\* the transcription loops that hold a chunk taken from audio_queue
Consuming == { t \in Sessions : trans_thread[t].pc = "proc" }

\* C13: at every moment at most one capture loop is producing into
\* audio_queue and at most one transcription loop is consuming from it, for
\* any sequence of start, stop, pause and force-stop.
C13_OneProducerOneConsumer ==
    /\ Cardinality(Producing) <= 1
    /\ Cardinality(Consuming) <= 1

\* thread t takes the step in which processing its chunk raises
RaisesInProcessing(t) ==
    /\ trans_thread[t].pc = "proc"
    /\ trans_thread'[t].got = "error"

\* C14: an exception raised while preprocessing or recognizing a chunk never
\* terminates the transcription loop and never changes the session state: the
\* chunk is discarded with no sink event and the loop goes back to its
\* condition, from where it takes the next queued chunk.
C14_ExceptionKeepsLoop ==
    [][\A t \in Sessions : RaisesInProcessing(t) =>
          /\ trans_thread'[t].pc = "while"
          /\ UNCHANGED <<is_recording, is_paused, nsessions, audio_queue,
                         gui_events, sink, rec_thread>>
          /\ \A u \in Sessions \ {t} : trans_thread'[u] = trans_thread[u]]_vars

\* a chunk has just failed and the next one is waiting in the queue
C14_Witness ==
    \E t \in Sessions :
        /\ trans_thread[t].got = "error"
        /\ trans_thread[t].pc = "while"
        /\ audio_queue # <<>>
        /\ EventsOf(trans_thread[t].chunk.id) = {}

\* thread t returns from transcribe_audio in this step
TranscriptionExits(t) ==
    /\ trans_thread[t].pc \notin {"none", "done"}
    /\ trans_thread'[t].pc = "done"

\* C15: the transcription loop exits only where it has observed the session
\* as not Recording and the queue as empty, at the loop condition or after a
\* pop timeout; it never exits on reading is_recording true and never on
\* seeing a pending chunk.
C15_ExitOnlyWhenIdleAndEmpty ==
    [][\A t \in Sessions :
          \* the exit is the second of the two observations
          /\ TranscriptionExits(t) =>
                \/ trans_thread[t].pc = "while_empty" /\ audio_queue = <<>>
                \/ trans_thread[t].pc = "except_empty" /\ ~is_recording
          \* and the place it exits from is entered on the first one
          /\ (trans_thread[t].pc # "while_empty" /\ trans_thread'[t].pc = "while_empty")
                => ~is_recording
          /\ (trans_thread[t].pc # "except_empty" /\ trans_thread'[t].pc = "except_empty")
                => audio_queue = <<>>]_vars

\* a transcription loop has returned while the capture loop of its session is
\* still running
C15_Witness ==
    \E t \in Sessions :
        /\ trans_thread[t].pc = "done"
        /\ rec_thread[t].pc \notin {"none", "done"}
        /\ attempts # [id \in ChunkIds |-> 0]

\* the step of capture thread t that ends the recording of its chunk normally
ChunkCompleted(t) ==
    /\ rec_thread[t].pc = "rec"
    /\ rec_thread'[t].pc = "while"

\* the queue is left alone or receives the chunk of thread t, which the gate
\* let through
GatedNormally(t) ==
    \/ UNCHANGED audio_queue
    \/ /\ Len(audio_queue') = Len(audio_queue) + 1
       /\ SubSeq(audio_queue', 1, Len(audio_queue)) = audio_queue
       /\ audio_queue'[Len(audio_queue')].id = rec_thread[t].id
       /\ ~rms_below_threshold(audio_queue'[Len(audio_queue')].audio)

\* C16: the capture loop never begins recording a new chunk in an iteration
\* where it observes Paused, it only sleeps and re-checks; a chunk whose
\* recording had begun when pause was set is still completed and gated
\* normally.
C16_NoNewChunkWhilePaused ==
    [][\A t \in Sessions :
          /\ (rec_thread[t].pc = "if_paused" /\ is_paused) =>
                /\ rec_thread'[t].pc \in {"if_paused", "while"}
                /\ UNCHANGED next_id
          /\ rec_thread[t].pc = "rec" => ENABLED record_audio_chunk(t)
          /\ ChunkCompleted(t) => GatedNormally(t)]_vars

\* the session is paused, a chunk was put on the queue after the pause, and a
\* capture loop is at its pause check
C16_Witness ==
    /\ is_recording
    /\ is_paused
    /\ QueuedIds \ at_pause # {}
    /\ \E t \in Sessions : rec_thread[t].pc = "if_paused"

\* C17: toggle_pause invoked while is_recording is false leaves is_paused,
\* is_recording and the queue unchanged; invoked during a session it flips
\* is_paused and changes nothing else.
C17_PauseFrame ==
    [][ClickPause =>
          /\ is_paused' = IF is_recording THEN ~is_paused ELSE is_paused
          /\ UNCHANGED <<is_recording, audio_queue, nsessions, rec_thread,
                         trans_thread, gui_events, sink, default_device_index>>]_vars

\* a session with queued audio was paused and the pause button can be
\* pressed again
C17_Witness ==
    /\ is_recording
    /\ is_paused
    /\ audio_queue # <<>>
    /\ ENABLED ClickPause

\* C18: once a stop has been issued and not followed by a start, and both
\* loops have terminated, audio_queue is empty: no chunk is left stranded, in
\* particular not the chunk whose capture was in progress at the stop.
C18_NoStrandedChunk == AllLoopsDone => audio_queue = <<>>

\* a new pair of loops is started in this step
SuccessfulStart == nsessions' = nsessions + 1

\* the session goes from Recording to Idle in this step
StopTransition == is_recording /\ ~is_recording'

\* C19: every successful start puts the session in Recording and not Paused,
\* whatever the pause flag was before; a session stopped while Paused leaves
\* is_paused true while Idle, and the next start resets it.
C19_StartResetsPause ==
    [][/\ SuccessfulStart => (is_recording' /\ ~is_paused')
       /\ StopTransition => UNCHANGED is_paused
       /\ (~is_recording /\ ~is_recording') => UNCHANGED is_paused]_vars

\* a session was stopped while Paused, and the record button can start the
\* next one
C19_Witness ==
    /\ ~is_recording
    /\ is_paused
    /\ nsessions >= 1
    /\ nsessions < MaxSessions
    /\ ENABLED ClickRecord

\* the transcription threads that hold chunk id
Holders(id) ==
    { t \in Sessions : trans_thread[t].pc = "proc" /\ trans_thread[t].chunk.id = id }

\* chunk id was popped at most once, is held by at most one loop, and was not
\* popped at all while it is still queued
HandedOutAtMostOnce(id) ==
    /\ attempts[id] <= 1
    /\ Cardinality(Holders(id)) <= attempts[id]
    /\ id \in QueuedIds => attempts[id] = 0
    /\ Cardinality({ i \in 1..Len(audio_queue) : audio_queue[i].id = id }) <= 1

\* the chunks that were enqueued and left the queue without a pop
Cleared == { id \in EnqueuedIds : id \notin QueuedIds /\ attempts[id] = 0 }

\* C20: no chunk is handed to the recognizer more than once, also while
\* transcription loops of an old and a new session are alive together: each
\* enqueued chunk is removed by at most one pop, and the queue clear on start
\* removes chunks without processing them.
C20_NoDoubleProcessing ==
    /\ [](\A id \in ChunkIds : HandedOutAtMostOnce(id))
    /\ [][SuccessfulStart =>
            /\ audio_queue' = <<>>
            /\ UNCHANGED <<attempts, sink>>
            /\ Len(gui_events') <= Len(gui_events)
            /\ \A t \in Sessions :
                 trans_thread[t].pc # "none" => trans_thread'[t] = trans_thread[t]]_vars

\* two transcription loops are alive, one of them holds a chunk, and an
\* earlier chunk was removed by the queue clear of a start
C20_Witness ==
    /\ \A t \in Sessions : trans_thread[t].pc \notin {"none", "done"}
    /\ \E t \in Sessions : trans_thread[t].pc = "proc"
    /\ Cleared # {}

====
